---- MODULE Spec2Model ----
(***************************************************************************)
(* Model of quan-to/go-vsm: the VSM engine (terms store, corpus, counter), *)
(* StaticTraining / train, and the two streaming variants Train and        *)
(* DynamicTraining.                                                        *)
(*                                                                         *)
(* A sentence is a sequence of runes (one-character strings); a term is a  *)
(* sequence of runes too.  Every lock-protected region of the code is one  *)
(* step; what the code does between two regions is a separate step.        *)
(***************************************************************************)
EXTENDS Integers, Sequences, FiniteSets, TLC

\* ------------------------------------------------------------------ bounds
\* number of direct callers of StaticTraining / train
NumCallers == 2
\* number of documents handed to the engine (direct calls plus documents sent)
MaxDocs == 3
\* number of StaticTraining calls made by the concurrent callers
MaxConcDocs == 2
\* capacity of the producer's document channel
DocChCap == 1
\* number of documents the producer sends
MaxSent == 2
\* number of StaticTraining calls made before the streaming goroutine starts
MaxPreDocs == 1
\* number of receptions from the closed channel that the Train goroutine trains
MaxZeroTrain == 2

\* number of Search calls
MaxSearch == 2
\* number of StaticTraining calls made while a Search may be running
MaxRaceDocs == 2

\* number of StaticTraining calls of the caller, of documents sent to the
\* streaming goroutine and of Search calls when the three run together
MaxLiveCalls == 1
MaxLiveSent == 1
MaxLiveSearch == 1

\* ------------------------------------------------------------------ inputs
Sentences ==
    { <<"a">>,
      <<"A", " ", "a">>,
      <<"a", " ", "\t", "b">>,
      <<"a", "-", "b">>,
      <<"b", "!">>,
      <<>> }

\* the sentences of the documents given to the streaming specification
StreamSentences == { <<"a">>, <<"b", "!">> }

\* the sentences of the documents trained before and between Search calls
SearchSentences == { <<"a">>, <<"a", " ", "\t", "b">>, <<"b", "!">> }

\* the sentences of the documents trained while a Search may be running
RaceSentences == { <<"a">>, <<"a", " ", "\t", "b">> }

\* the sentence and the query used when callers, a Search and the streaming
\* goroutine all run together
LiveSentences == { <<"a">> }
LiveQueries == { <<"a">> }

\* the queries given to Search
Queries == { <<"a">>, <<"b", " ", "A">>, <<"b", "!">> }

Transformers == {"nil", "hyphen", "failing", "strict"}

NoErr == "nil"
TransformErr == "transform error"
CtxErr == "context canceled"

\* the zero value Document{}
ZeroDoc == [Sentence |-> <<>>, Class |-> 0]

\* ------------------------------------------------------- pure text functions
IsSpace(r) == r \in {" ", "\t"}

ToLowerRune(r) == IF r = "A" THEN "a" ELSE r

ToLower(w) == [i \in 1..Len(w) |-> ToLowerRune(w[i])]

RECURSIVE TrimLeft(_)
TrimLeft(w) ==
    IF w # <<>> /\ IsSpace(Head(w)) THEN TrimLeft(Tail(w)) ELSE w

RECURSIVE TrimRight(_)
TrimRight(w) ==
    IF w # <<>> /\ IsSpace(w[Len(w)]) THEN TrimRight(SubSeq(w, 1, Len(w) - 1)) ELSE w

TrimSpace(w) == TrimRight(TrimLeft(w))

\* strings.Split(s, " "): always at least one element
RECURSIVE Split(_)
Split(s) ==
    IF \E k \in 1..Len(s) : s[k] = " "
    THEN LET k == CHOOSE j \in 1..Len(s) :
                      s[j] = " " /\ \A m \in 1..(j - 1) : s[m] # " "
         IN  <<SubSeq(s, 1, k - 1)>> \o Split(SubSeq(s, k + 1, Len(s)))
    ELSE <<s>>

\* the token of the loop body: strings.ToLower(strings.TrimSpace(trm))
Token(w) == ToLower(TrimSpace(w))

Tokens(s) == [i \in 1..Len(Split(s)) |-> Token(Split(s)[i])]

\* transform.String(v.transformer, sentence) for the transformers in use:
\*   hyphen  - runes.Map replacing a hyphen by a space
\*   failing - the stub whose Transform always returns its error
\*   strict  - replaces hyphens and rejects a sentence holding "!"
TransformString(tr, s) ==
    CASE tr = "hyphen"  -> [out |-> [i \in 1..Len(s) |-> IF s[i] = "-" THEN " " ELSE s[i]],
                            err |-> NoErr]
      [] tr = "failing" -> [out |-> <<>>, err |-> TransformErr]
      [] tr = "strict"  -> IF \E i \in 1..Len(s) : s[i] = "!"
                           THEN [out |-> <<>>, err |-> TransformErr]
                           ELSE [out |-> [i \in 1..Len(s) |-> IF s[i] = "-" THEN " " ELSE s[i]],
                                 err |-> NoErr]

sanitize(tr, sentence) ==
    IF tr # "nil"
    THEN LET r == TransformString(tr, sentence)
         IN  IF r.err # NoErr
             THEN [out |-> sentence, err |-> r.err]
             ELSE [out |-> r.out, err |-> NoErr]
    ELSE [out |-> sentence, err |-> NoErr]

\* ------------------------------------------------------------------- state
STREAM == 0
Callers == 1..NumCallers
Procs == {STREAM} \cup Callers

VARIABLES
    transformer,   \* VSM.transformer
    terms,         \* VSM.terms.terms: term -> docsSeen
    docs,          \* VSM.docs
    docsCount,     \* VSM.docsCount
    pc,            \* position of every process inside train
    loc,           \* the locals of train, per process
    ret,           \* history: the returned train calls, in order of return
    nDocs,         \* number of documents handed to the engine so far
    sPc,           \* position of the streaming goroutine
    variant,       \* which streaming function started it: "Train" or "DynamicTraining"
    docCh,         \* the buffer of the producer's channel
    docChClosed,   \* the producer closed the channel
    ctxDone,       \* ctx.Done() is closed
    cons,          \* the consumer of trainCh: "away" or "receiving"
    outs,          \* history: the results received from trainCh, in order
    sent,          \* history: the documents sent on docCh, in order
    drops,         \* history: the results discarded by the default case
    sRes,          \* the TrainResult the streaming goroutine is about to send
    sTrains,       \* number of zero documents the Train goroutine trained
    ctxAtStart,    \* history: ctx was already done when the goroutine was started
    sExit,         \* history: the select case the goroutine returned from
    qPc,           \* position of the goroutine calling Search
    q,             \* the locals of Search
    sret,          \* history: the returned Search calls, in order
    logArgs        \* history: the <<totalDocs, docsSeen>> math.Log was evaluated for

engineVars == <<transformer, terms, docs, docsCount>>
streamVars == <<variant, docCh, docChClosed, ctxDone, cons, outs, sent, drops, sTrains,
                ctxAtStart, sExit>>
searchVars == <<qPc, q, sret, logArgs>>
vars == <<transformer, terms, docs, docsCount, pc, loc, ret, nDocs, sPc, sRes,
          variant, docCh, docChClosed, ctxDone, cons, outs, sent, drops, sTrains,
          ctxAtStart, sExit, qPc, q, sret, logArgs>>

NoLoc ==
    [dc |-> ZeroDoc, toks |-> <<>>, i |-> 0, termFreq |-> <<>>,
     seenTerms |-> {}, rest |-> {}, trm |-> <<>>, t |-> 0, n |-> 0]

NoRes == [Doc |-> ZeroDoc, Err |-> NoErr]

\* doc.termFreq[t]++ on a Go map
Incr(m, k) ==
    IF k \in DOMAIN m THEN [m EXCEPT ![k] = @ + 1] ELSE m @@ (k :> 1)

\* terms.Get: (value, ok); the zero term when absent
Get(k) ==
    IF k \in DOMAIN terms THEN [docsSeen |-> terms[k], ok |-> TRUE]
                          ELSE [docsSeen |-> 0, ok |-> FALSE]

\* terms.Set: t.terms[k] = v
Set(k, v) ==
    IF k \in DOMAIN terms THEN [terms EXCEPT ![k] = v] ELSE terms @@ (k :> v)

\* ---------------------------------------------------- float64 arithmetic
\* Search only adds, multiplies and divides non-negative numbers, squares of
\* logarithms among them, so a float64 is kept as a finite non-negative
\* number, +Inf or NaN; a magnitude is kept as its square.  The logarithms
\* are taken from a table of ln in thousandths and their squares are kept in
\* hundredths.
Fin(v) == [k |-> "fin", v |-> v]
Inf == [k |-> "inf", v |-> 0]
NaN == [k |-> "nan", v |-> 0]

LnMilli(n) ==
    CASE n = 1 -> 0    [] n = 2 -> 693  [] n = 3 -> 1099 [] n = 4 -> 1386
      [] n = 5 -> 1609 [] n = 6 -> 1792 [] n = 7 -> 1946 [] n = 8 -> 2079

\* a smoothed idf, the square of math.Log(1 + float64(totalDocs) / float64(t.docsSeen))
IdfSq_Smoothed(n, d) ==
    IF n = 0 /\ d = 0 THEN NaN
    ELSE IF d = 0 THEN Inf
    ELSE Fin(((LnMilli(n + d) - LnMilli(d)) * (LnMilli(n + d) - LnMilli(d))) \div 10000)

\* the square of math.Log(float64(totalDocs) / float64(t.docsSeen)):
\*   0/0 is NaN, log(0/d) is -Inf, log(n/0) is +Inf
IdfSq(n, d) ==
    IF n = 0 /\ d = 0 THEN NaN
    ELSE IF n = 0 \/ d = 0 THEN Inf
    ELSE Fin(((LnMilli(n) - LnMilli(d)) * (LnMilli(n) - LnMilli(d))) \div 10000)

\* float64(m) * x for an integer m >= 0: 0 * Inf and 0 * NaN are NaN
Scale(x, m) ==
    IF x.k = "fin" THEN Fin(m * x.v)
    ELSE IF m = 0 THEN NaN
    ELSE x

\* x + y
AddF(x, y) ==
    IF x.k = "nan" \/ y.k = "nan" THEN NaN
    ELSE IF x.k = "inf" \/ y.k = "inf" THEN Inf
    ELSE Fin(x.v + y.v)

\* math.Sqrt(docSum) * math.Sqrt(querySum), as "nan", "inf", "zero" or "pos"
Denominator(docSum, querySum) ==
    IF docSum.k = "nan" \/ querySum.k = "nan" THEN "nan"
    ELSE IF docSum.k = "inf" \/ querySum.k = "inf"
         THEN IF (docSum.k = "fin" /\ docSum.v = 0) \/ (querySum.k = "fin" /\ querySum.v = 0)
              THEN "nan" ELSE "inf"
    ELSE IF docSum.v = 0 \/ querySum.v = 0 THEN "zero"
    ELSE "pos"

\* sim := coeff / (docMag * queryMag); a finite sim is kept as the pair
\* c = coeff, d = docSum: within one Search querySum is the same for all
SimZero == [k |-> "fin", c |-> 0, d |-> 1]
SimInf == [k |-> "inf", c |-> 0, d |-> 1]
SimNaN == [k |-> "nan", c |-> 0, d |-> 1]

Similarity(coeff, docSum, querySum) ==
    LET den == Denominator(docSum, querySum)
    IN  IF coeff.k = "nan" \/ den = "nan" THEN SimNaN
        ELSE IF coeff.k = "inf" THEN (IF den = "inf" THEN SimNaN ELSE SimInf)
        ELSE IF den = "inf" THEN SimZero
        ELSE IF den = "zero" THEN (IF coeff.v = 0 THEN SimNaN ELSE SimInf)
        ELSE [k |-> "fin", c |-> coeff.v, d |-> docSum.v]

\* a comparison that lets a NaN similarity replace the best one
Greater_NaNWins(x, y) ==
    IF x.k = "nan" THEN TRUE
    ELSE IF x.k = "inf" THEN y.k # "inf"
    ELSE IF y.k = "inf" THEN FALSE
    ELSE x.c * x.c * y.d > y.c * y.c * x.d

\* a comparison that lets a later document win a tie
Greater_OrEqual(x, y) ==
    IF x.k = "nan" THEN FALSE
    ELSE IF x.k = "inf" THEN TRUE
    ELSE IF y.k = "inf" THEN FALSE
    ELSE x.c * x.c * y.d >= y.c * y.c * x.d

\* sim > maxSim; maxSim is never NaN
Greater(x, y) ==
    IF x.k = "nan" THEN FALSE
    ELSE IF x.k = "inf" THEN y.k # "inf"
    ELSE IF y.k = "inf" THEN FALSE
    ELSE x.c * x.c * y.d > y.c * y.c * x.d

\* queryDoc.termFreq after the token loop of Search
RECURSIVE TermFreqOf(_)
TermFreqOf(toks) ==
    IF toks = <<>> THEN <<>>
    ELSE Incr(TermFreqOf(SubSeq(toks, 1, Len(toks) - 1)), toks[Len(toks)])

\* the locals of Search; found is <<>> for the nil *Document
NoQuery ==
    [query |-> <<>>, termFreq |-> <<>>, total |-> 0, rest |-> {}, querySum |-> Fin(0),
     i |-> 0, drest |-> {}, docSum |-> Fin(0), coeff |-> Fin(0), maxSim |-> SimZero,
     found |-> <<>>, at |-> 0]

\* a Search that returns without v.mu.RUnlock()
ScanLocked_NeverReleased == qPc \in {"docGet", "runlock"} \/ sret # <<>>

\* a Search holds v.mu.RLock()
ScanLocked == qPc \in {"docGet", "runlock"}

CallersIdle == \A p \in Callers : pc[p] = "idle"

\* New(t): empty store, empty corpus, counter 0; nothing is running
Init ==
    /\ transformer \in Transformers
    /\ terms = <<>>
    /\ docs = <<>>
    /\ docsCount = 0
    /\ pc = [p \in Procs |-> "idle"]
    /\ loc = [p \in Procs |-> NoLoc]
    /\ ret = <<>>
    /\ nDocs = 0
    /\ sPc = "off"
    /\ sRes = NoRes
    /\ variant = "none"
    /\ docCh = <<>>
    /\ docChClosed = FALSE
    /\ ctxDone = FALSE
    /\ cons = "away"
    /\ outs = <<>>
    /\ sent = <<>>
    /\ drops = <<>>
    /\ sTrains = 0
    /\ ctxAtStart = FALSE
    /\ sExit = "none"
    /\ qPc = "idle"
    /\ q = NoQuery
    /\ sret = <<>>
    /\ logArgs = {}

\* --------------------------------------------------- StaticTraining / train
\* train returns err to its caller; the streaming goroutine goes on to publish
Return(p, d, err) ==
    /\ pc' = [pc EXCEPT ![p] = "idle"]
    /\ loc' = [loc EXCEPT ![p] = NoLoc]
    /\ ret' = Append(ret, [p |-> p, doc |-> d, err |-> err])
    /\ sPc' = IF p = STREAM THEN "publish" ELSE sPc
    /\ sRes' = IF p = STREAM THEN [Doc |-> d, Err |-> err] ELSE sRes

\* mutant of Begin: the record is appended before the error of sanitize is looked at
Begin_AppendsBeforeCheck(p, d) ==
    LET r == sanitize(transformer, d.Sentence)
    IN  IF r.err # NoErr
        THEN /\ Return(p, d, r.err)
             /\ docs' = Append(docs, [Sentence |-> d.Sentence, Class |-> d.Class,
                                      termFreq |-> <<>>])
             /\ UNCHANGED <<terms, docsCount>>
        ELSE /\ pc' = [pc EXCEPT ![p] = "tokGet"]
             /\ loc' = [loc EXCEPT ![p] = [NoLoc EXCEPT !.dc = d, !.toks = Split(r.out), !.i = 1]]
             /\ sPc' = IF p = STREAM THEN "train" ELSE sPc
             /\ UNCHANGED <<terms, docs, docsCount, ret, sRes>>

\* entry of train: the locals and v.sanitize(dc.Sentence)
Begin(p, d) ==
    LET r == sanitize(transformer, d.Sentence)
    IN  IF r.err # NoErr
        THEN /\ Return(p, d, r.err)
             /\ UNCHANGED <<terms, docs, docsCount>>
        ELSE /\ pc' = [pc EXCEPT ![p] = "tokGet"]
             /\ loc' = [loc EXCEPT ![p] = [NoLoc EXCEPT !.dc = d, !.toks = Split(r.out), !.i = 1]]
             /\ sPc' = IF p = STREAM THEN "train" ELSE sPc
             /\ UNCHANGED <<terms, docs, docsCount, ret, sRes>>

\* a caller calls StaticTraining(dc)
Call(p, s, max) ==
    /\ p \in Callers
    /\ pc[p] = "idle"
    /\ nDocs < max
    /\ nDocs' = nDocs + 1
    /\ Begin(p, [Sentence |-> s, Class |-> nDocs + 1])
    /\ UNCHANGED <<transformer, streamVars>>
    /\ UNCHANGED searchVars

\* doc.termFreq[t]++; seenTerms[t] = struct{}{}; next token
AfterTok(p, t) ==
    /\ loc' = [loc EXCEPT ![p].termFreq = Incr(@, t),
                          ![p].seenTerms = @ \cup {t},
                          ![p].rest = loc[p].seenTerms \cup {t},
                          ![p].i = @ + 1]
    /\ pc' = [pc EXCEPT ![p] = IF loc[p].i + 1 > Len(loc[p].toks) THEN "seenGet" ELSE "tokGet"]

\* if _, ok := v.terms.Get(t); !ok
TokGet(p) ==
    /\ pc[p] = "tokGet"
    /\ LET t == Token(loc[p].toks[loc[p].i])
       IN  IF Get(t).ok
           THEN AfterTok(p, t)
           ELSE /\ pc' = [pc EXCEPT ![p] = "tokSet"]
                /\ UNCHANGED loc
    /\ UNCHANGED <<engineVars, ret, nDocs, sPc, sRes, streamVars>>
    /\ UNCHANGED searchVars

\* v.terms.Set(t, term{})
TokSet(p) ==
    /\ pc[p] = "tokSet"
    /\ LET t == Token(loc[p].toks[loc[p].i])
       IN  /\ terms' = Set(t, 0)
           /\ AfterTok(p, t)
    /\ UNCHANGED <<transformer, docs, docsCount, ret, nDocs, sPc, sRes, streamVars>>
    /\ UNCHANGED searchVars

\* for trm := range seenTerms { t, _ := v.terms.Get(trm)
SeenGet(p) ==
    /\ pc[p] = "seenGet"
    /\ \E trm \in loc[p].rest :
          loc' = [loc EXCEPT ![p].trm = trm, ![p].t = Get(trm).docsSeen]
    /\ pc' = [pc EXCEPT ![p] = "seenSet"]
    /\ UNCHANGED <<engineVars, ret, nDocs, sPc, sRes, streamVars>>
    /\ UNCHANGED searchVars

\* mutant of SeenSet: docsSeen grows by the occurrences of the term in the document
SeenSet_PerOccurrence(p) ==
    /\ pc[p] = "seenSet"
    /\ terms' = Set(loc[p].trm, loc[p].t + loc[p].termFreq[loc[p].trm])
    /\ loc' = [loc EXCEPT ![p].rest = @ \ {loc[p].trm}]
    /\ pc' = [pc EXCEPT ![p] = IF loc[p].rest = {loc[p].trm} THEN "append" ELSE "seenGet"]
    /\ UNCHANGED <<transformer, docs, docsCount, ret, nDocs, sPc, sRes, streamVars>>
    /\ UNCHANGED searchVars

\* t.docsSeen++; v.terms.Set(trm, t) }
SeenSet(p) ==
    /\ pc[p] = "seenSet"
    /\ terms' = Set(loc[p].trm, loc[p].t + 1)
    /\ loc' = [loc EXCEPT ![p].rest = @ \ {loc[p].trm}]
    /\ pc' = [pc EXCEPT ![p] = IF loc[p].rest = {loc[p].trm} THEN "append" ELSE "seenGet"]
    /\ UNCHANGED <<transformer, docs, docsCount, ret, nDocs, sPc, sRes, streamVars>>
    /\ UNCHANGED searchVars

\* mutant of AppendDoc: the record is put in front of the corpus
AppendDoc_Prepend(p) ==
    /\ pc[p] = "append"
    /\ ~ScanLocked
    /\ docs' = <<[Sentence |-> loc[p].dc.Sentence, Class |-> loc[p].dc.Class,
                  termFreq |-> loc[p].termFreq]>> \o docs
    /\ loc' = [loc EXCEPT ![p].n = Len(docs) + 1]
    /\ pc' = [pc EXCEPT ![p] = "lenRead"]
    /\ UNCHANGED <<transformer, terms, docsCount, ret, nDocs, sPc, sRes, streamVars>>
    /\ UNCHANGED searchVars

\* v.mu.Lock(); v.docs = append(v.docs, doc); v.mu.Unlock()
AppendDoc(p) ==
    /\ pc[p] = "append"
    /\ ~ScanLocked
    /\ docs' = Append(docs, [Sentence |-> loc[p].dc.Sentence, Class |-> loc[p].dc.Class,
                             termFreq |-> loc[p].termFreq])
    /\ loc' = [loc EXCEPT ![p].n = Len(docs) + 1]
    /\ pc' = [pc EXCEPT ![p] = "lenRead"]
    /\ UNCHANGED <<transformer, terms, docsCount, ret, nDocs, sPc, sRes, streamVars>>
    /\ UNCHANGED searchVars

\* uint64(len(v.docs)), read outside the lock: it races with the appends of
\* the other goroutines, so it yields the length after the own append or any
\* later length up to the current one
LenRead(p) ==
    /\ pc[p] = "lenRead"
    /\ \E n \in loc[p].n..Len(docs) : loc' = [loc EXCEPT ![p].n = n]
    /\ pc' = [pc EXCEPT ![p] = "store"]
    /\ UNCHANGED <<engineVars, ret, nDocs, sPc, sRes, streamVars>>
    /\ UNCHANGED searchVars

\* mutant of Store: the counter gets the length the corpus had before the append
Store_LengthBeforeAppend(p) ==
    /\ pc[p] = "store"
    /\ docsCount' = loc[p].n - 1
    /\ Return(p, loc[p].dc, NoErr)
    /\ UNCHANGED <<transformer, terms, docs, nDocs, streamVars>>
    /\ UNCHANGED searchVars

\* atomic.StoreUint64(&v.docsCount, ...); return nil
Store(p) ==
    /\ pc[p] = "store"
    /\ docsCount' = loc[p].n
    /\ Return(p, loc[p].dc, NoErr)
    /\ UNCHANGED <<transformer, terms, docs, nDocs, streamVars>>
    /\ UNCHANGED searchVars

TrainStep(p) ==
    \/ TokGet(p)
    \/ TokSet(p)
    \/ SeenGet(p)
    \/ SeenSet(p)
    \/ AppendDoc(p)
    \/ LenRead(p)
    \/ Store(p)


\* ------------------------------------------------------------------ Search
notSearch == <<transformer, terms, docs, docsCount, pc, loc, ret, nDocs, sPc, sRes,
               variant, docCh, docChClosed, ctxDone, cons, outs, sent, drops, sTrains,
               ctxAtStart, sExit>>

\* Search(query): sanitize, the token loop building queryDoc.termFreq
SearchCall(qs) ==
    /\ qPc = "idle"
    /\ Len(sret) < MaxSearch
    /\ LET r == sanitize(transformer, qs)
       IN  IF r.err # NoErr
           THEN /\ sret' = Append(sret, [query |-> qs, doc |-> <<>>, err |-> r.err,
                                         at |-> Len(ret)])
                /\ UNCHANGED <<qPc, q>>
           ELSE /\ q' = [NoQuery EXCEPT !.query = qs, !.termFreq = TermFreqOf(Tokens(r.out)),
                                        !.at = Len(ret)]
                /\ qPc' = "load"
                /\ UNCHANGED sret
    /\ UNCHANGED <<logArgs, notSearch>>

\* totalDocs := atomic.LoadUint64(&v.docsCount)
SearchLoad ==
    /\ qPc = "load"
    /\ q' = [q EXCEPT !.total = docsCount, !.rest = DOMAIN q.termFreq]
    /\ qPc' = "queryGet"
    /\ UNCHANGED <<sret, logArgs, notSearch>>

\* a query loop that stores an entry for a term missing from the store
QueryGet_StoresMiss ==
    /\ qPc = "queryGet"
    /\ \E trm \in q.rest :
          LET g == Get(trm)
              idf == IdfSq(q.total, g.docsSeen)
              freq == q.termFreq[trm]
          IN  /\ q' = [q EXCEPT !.rest = @ \ {trm},
                                !.querySum = IF g.ok THEN AddF(@, Scale(idf, freq * freq)) ELSE @]
              /\ logArgs' = IF g.ok THEN logArgs \cup {<<q.total, g.docsSeen>>} ELSE logArgs
              /\ terms' = IF g.ok THEN terms ELSE Set(trm, 1)
              /\ qPc' = IF q.rest = {trm} THEN "rlock" ELSE "queryGet"
    /\ UNCHANGED <<sret, transformer, docs, docsCount, pc, loc, ret, nDocs, sPc, sRes,
                   variant, docCh, docChClosed, ctxDone, cons, outs, sent, drops, sTrains,
                   ctxAtStart, sExit>>

\* a query loop that does not skip the terms missing from the store
QueryGet_IgnoresOk ==
    /\ qPc = "queryGet"
    /\ \E trm \in q.rest :
          LET g == Get(trm)
              idf == IdfSq(q.total, g.docsSeen)
              freq == q.termFreq[trm]
          IN  /\ q' = [q EXCEPT !.rest = @ \ {trm},
                                !.querySum = AddF(@, Scale(idf, freq * freq))]
              /\ logArgs' = logArgs \cup {<<q.total, g.docsSeen>>}
              /\ qPc' = IF q.rest = {trm} THEN "rlock" ELSE "queryGet"
    /\ UNCHANGED <<sret, notSearch>>

\* for trm, freq := range queryDoc.termFreq { t, ok := v.terms.Get(trm) ... }
QueryGet ==
    /\ qPc = "queryGet"
    /\ \E trm \in q.rest :
          LET g == Get(trm)
              idf == IdfSq(q.total, g.docsSeen)
              freq == q.termFreq[trm]
          IN  /\ q' = [q EXCEPT !.rest = @ \ {trm},
                                !.querySum = IF g.ok THEN AddF(@, Scale(idf, freq * freq)) ELSE @]
              /\ logArgs' = IF g.ok THEN logArgs \cup {<<q.total, g.docsSeen>>} ELSE logArgs
              /\ qPc' = IF q.rest = {trm} THEN "rlock" ELSE "queryGet"
    /\ UNCHANGED <<sret, notSearch>>

\* v.mu.RLock(); for _, doc := range v.docs
SearchRLock ==
    /\ qPc = "rlock"
    /\ IF docs = <<>>
       THEN /\ qPc' = "runlock"
            /\ UNCHANGED q
       ELSE /\ qPc' = "docGet"
            /\ q' = [q EXCEPT !.i = 1, !.drest = DOMAIN docs[1].termFreq,
                              !.docSum = Fin(0), !.coeff = Fin(0)]
    /\ UNCHANGED <<sret, logArgs, notSearch>>

\* a document loop that keeps the first document with a similarity above zero
DocGet_KeepsFirst ==
    /\ qPc = "docGet"
    /\ \E trm \in q.drest :
          LET doc == docs[q.i]
              g == Get(trm)
              idf == IdfSq(q.total, g.docsSeen)
              freq == doc.termFreq[trm]
              qfreq == IF trm \in DOMAIN q.termFreq THEN q.termFreq[trm] ELSE 0
              coeff == AddF(q.coeff, Scale(idf, freq * qfreq))
              docSum == AddF(q.docSum, Scale(idf, freq * freq))
              sim == Similarity(coeff, docSum, q.querySum)
              better == Greater(sim, q.maxSim) /\ q.found = <<>>
              last == q.drest = {trm}
              more == q.i < Len(docs)
          IN  /\ logArgs' = logArgs \cup {<<q.total, g.docsSeen>>}
              /\ IF ~last
                 THEN /\ q' = [q EXCEPT !.drest = @ \ {trm}, !.coeff = coeff, !.docSum = docSum]
                      /\ qPc' = "docGet"
                 ELSE /\ q' = [q EXCEPT
                                 !.found = IF better
                                           THEN <<[Sentence |-> doc.Sentence, Class |-> doc.Class]>>
                                           ELSE @,
                                 !.maxSim = IF better THEN sim ELSE @,
                                 !.i = @ + 1,
                                 !.drest = IF more THEN DOMAIN docs[q.i + 1].termFreq ELSE {},
                                 !.coeff = Fin(0),
                                 !.docSum = Fin(0)]
                      /\ qPc' = IF more THEN "docGet" ELSE "runlock"
    /\ UNCHANGED <<sret, notSearch>>

\* for trm, freq := range doc.termFreq { t, _ := v.terms.Get(trm) ... } and,
\* after the last term, sim and the comparison with maxSim
DocGet ==
    /\ qPc = "docGet"
    /\ \E trm \in q.drest :
          LET doc == docs[q.i]
              g == Get(trm)
              idf == IdfSq(q.total, g.docsSeen)
              freq == doc.termFreq[trm]
              qfreq == IF trm \in DOMAIN q.termFreq THEN q.termFreq[trm] ELSE 0
              coeff == AddF(q.coeff, Scale(idf, freq * qfreq))
              docSum == AddF(q.docSum, Scale(idf, freq * freq))
              sim == Similarity(coeff, docSum, q.querySum)
              better == Greater(sim, q.maxSim)
              last == q.drest = {trm}
              more == q.i < Len(docs)
          IN  /\ logArgs' = logArgs \cup {<<q.total, g.docsSeen>>}
              /\ IF ~last
                 THEN /\ q' = [q EXCEPT !.drest = @ \ {trm}, !.coeff = coeff, !.docSum = docSum]
                      /\ qPc' = "docGet"
                 ELSE /\ q' = [q EXCEPT
                                 !.found = IF better
                                           THEN <<[Sentence |-> doc.Sentence, Class |-> doc.Class]>>
                                           ELSE @,
                                 !.maxSim = IF better THEN sim ELSE @,
                                 !.i = @ + 1,
                                 !.drest = IF more THEN DOMAIN docs[q.i + 1].termFreq ELSE {},
                                 !.coeff = Fin(0),
                                 !.docSum = Fin(0)]
                      /\ qPc' = IF more THEN "docGet" ELSE "runlock"
    /\ UNCHANGED <<sret, notSearch>>

\* a Search that reports "no match" as an error
SearchReturn_ErrorOnNoMatch ==
    /\ qPc = "runlock"
    /\ sret' = Append(sret, [query |-> q.query, doc |-> q.found,
                             err |-> IF q.found = <<>> THEN TransformErr ELSE NoErr,
                             at |-> q.at])
    /\ q' = NoQuery
    /\ qPc' = "idle"
    /\ UNCHANGED <<logArgs, notSearch>>

\* v.mu.RUnlock(); return foundDoc, nil
SearchReturn ==
    /\ qPc = "runlock"
    /\ sret' = Append(sret, [query |-> q.query, doc |-> q.found, err |-> NoErr, at |-> q.at])
    /\ q' = NoQuery
    /\ qPc' = "idle"
    /\ UNCHANGED <<logArgs, notSearch>>

SearchStep ==
    \/ SearchLoad
    \/ QueryGet
    \/ SearchRLock
    \/ DocGet
    \/ SearchReturn

\* ------------------------------------------------- the streaming goroutines
\* the environment: producer of docCh, ctx, consumer of trainCh
Send(s) ==
    /\ ~docChClosed
    /\ Len(docCh) < DocChCap
    /\ Len(sent) < MaxSent
    /\ LET d == [Sentence |-> s, Class |-> nDocs + 1]
       IN  /\ docCh' = Append(docCh, d)
           /\ sent' = Append(sent, d)
    /\ nDocs' = nDocs + 1
    /\ UNCHANGED <<engineVars, pc, loc, ret, sPc, sRes, variant, docChClosed, ctxDone,
                   cons, outs, drops, sTrains, ctxAtStart, sExit>>
    /\ UNCHANGED searchVars

CloseDocCh ==
    /\ ~docChClosed
    /\ docChClosed' = TRUE
    /\ UNCHANGED <<engineVars, pc, loc, ret, nDocs, sPc, sRes, variant, docCh, ctxDone,
                   cons, outs, sent, drops, sTrains, ctxAtStart, sExit>>
    /\ UNCHANGED searchVars

Cancel ==
    /\ ~ctxDone
    /\ ctxDone' = TRUE
    /\ UNCHANGED <<engineVars, pc, loc, ret, nDocs, sPc, sRes, variant, docCh, docChClosed,
                   cons, outs, sent, drops, sTrains, ctxAtStart, sExit>>
    /\ UNCHANGED searchVars

\* the consumer blocks in <-trainCh
ConsReceive ==
    /\ cons = "away"
    /\ cons' = "receiving"
    /\ UNCHANGED <<engineVars, pc, loc, ret, nDocs, sPc, sRes, variant, docCh, docChClosed,
                   ctxDone, outs, sent, drops, sTrains, ctxAtStart, sExit>>
    /\ UNCHANGED searchVars

\* the consumer gives up waiting (the time.Tick case of the callers' select)
ConsLeave ==
    /\ cons = "receiving"
    /\ sPc # "done"
    /\ cons' = "away"
    /\ UNCHANGED <<engineVars, pc, loc, ret, nDocs, sPc, sRes, variant, docCh, docChClosed,
                   ctxDone, outs, sent, drops, sTrains, ctxAtStart, sExit>>
    /\ UNCHANGED searchVars

\* Train / DynamicTraining: make(chan), go func() {...}, return trainCh
Start(v) ==
    /\ sPc = "off"
    /\ CallersIdle
    /\ variant' = v
    /\ sPc' = "select"
    /\ ctxAtStart' = ctxDone
    /\ UNCHANGED <<engineVars, pc, loc, ret, nDocs, sRes, docCh, docChClosed, ctxDone,
                   cons, outs, sent, drops, sTrains, sExit>>
    /\ UNCHANGED searchVars

\* a receive on docCh: the head of the buffer, or the zero value once the
\* channel is closed and drained
CanRecv == docCh # <<>> \/ docChClosed
RecvDoc == IF docCh # <<>> THEN Head(docCh) ELSE ZeroDoc
RecvOk == docCh # <<>>
RecvRest == IF docCh # <<>> THEN Tail(docCh) ELSE docCh

\* Train: case doc := <-docCh: ... v.train(doc)
TrainRecv ==
    /\ variant = "Train"
    /\ sPc = "select"
    /\ CanRecv
    /\ ~RecvOk => sTrains < MaxZeroTrain
    /\ sTrains' = IF RecvOk THEN sTrains ELSE sTrains + 1
    /\ docCh' = RecvRest
    /\ Begin(STREAM, RecvDoc)
    /\ UNCHANGED <<transformer, nDocs, variant, docChClosed, ctxDone, cons, outs, sent, drops,
                   ctxAtStart, sExit>>
    /\ UNCHANGED searchVars

\* Train: case <-ctx.Done(): the operand TrainResult{Err: ctx.Err()}
TrainDone ==
    /\ variant = "Train"
    /\ sPc = "select"
    /\ ctxDone
    /\ sRes' = [Doc |-> ZeroDoc, Err |-> CtxErr]
    /\ sPc' = "publishCancel"
    /\ UNCHANGED <<engineVars, pc, loc, ret, nDocs, streamVars>>
    /\ UNCHANGED searchVars

\* Train: trainCh <- TrainResult{...}, a send on the unbuffered channel; after
\* the result of the ctx.Done() case the goroutine returns and closes trainCh
TrainSend ==
    /\ variant = "Train"
    /\ sPc \in {"publish", "publishCancel"}
    /\ cons = "receiving"
    /\ outs' = Append(outs, sRes)
    /\ cons' = "away"
    /\ sPc' = IF sPc = "publish" THEN "select" ELSE "done"
    /\ sExit' = IF sPc = "publish" THEN sExit ELSE "ctx"
    /\ UNCHANGED <<engineVars, pc, loc, ret, nDocs, sRes, variant, docCh, docChClosed,
                   ctxDone, sent, drops, sTrains, ctxAtStart>>
    /\ UNCHANGED searchVars

\* DynamicTraining: case doc, ok := <-docCh: if !ok { return } ... v.StaticTraining(doc)
DynRecv ==
    /\ variant = "DynamicTraining"
    /\ sPc = "select"
    /\ CanRecv
    /\ docCh' = RecvRest
    /\ IF RecvOk
       THEN Begin(STREAM, RecvDoc)
       ELSE /\ sPc' = "done"
            /\ UNCHANGED <<terms, docs, docsCount, pc, loc, ret, sRes>>
    /\ sExit' = IF RecvOk THEN sExit ELSE "docCh"
    /\ UNCHANGED <<transformer, nDocs, variant, docChClosed, ctxDone, cons, outs, sent,
                   drops, sTrains, ctxAtStart>>
    /\ UNCHANGED searchVars

\* DynamicTraining: case <-ctx.Done(): return
DynDone ==
    /\ variant = "DynamicTraining"
    /\ sPc = "select"
    /\ ctxDone
    /\ sPc' = "done"
    /\ sExit' = "ctx"
    /\ UNCHANGED <<engineVars, pc, loc, ret, nDocs, sRes, variant, docCh, docChClosed,
                   ctxDone, cons, outs, sent, drops, sTrains, ctxAtStart>>
    /\ UNCHANGED searchVars

\* DynamicTraining: select { default: case trainCh <- TrainingResult{...}: }
DynSend ==
    /\ variant = "DynamicTraining"
    /\ sPc = "publish"
    /\ IF cons = "receiving"
       THEN /\ outs' = Append(outs, sRes)
            /\ cons' = "away"
            /\ UNCHANGED drops
       ELSE /\ drops' = Append(drops, sRes)
            /\ UNCHANGED <<outs, cons>>
    /\ sPc' = "select"
    /\ UNCHANGED <<engineVars, pc, loc, ret, nDocs, sRes, variant, docCh, docChClosed,
                   ctxDone, sent, sTrains, ctxAtStart, sExit>>
    /\ UNCHANGED searchVars

StreamStep ==
    \/ TrainRecv
    \/ TrainDone
    \/ TrainSend
    \/ DynRecv
    \/ DynDone
    \/ DynSend
    \/ TrainStep(STREAM)

\* ------------------------------------------------------------ specifications
\* one caller: a sequential sequence of StaticTraining calls
NextSeq ==
    \/ \E s \in Sentences : Call(1, s, MaxDocs)
    \/ TrainStep(1)

SpecSeq == Init /\ [][NextSeq]_vars

\* concurrent callers of StaticTraining
NextConc ==
    \/ \E p \in Callers, s \in Sentences : Call(p, s, MaxConcDocs)
    \/ \E p \in Callers : TrainStep(p)

SpecConc == Init /\ [][NextConc]_vars

\* one goroutine at a time: StaticTraining calls and Search calls in sequence
NextSearch ==
    \/ \E s \in SearchSentences : qPc = "idle" /\ Call(1, s, MaxDocs)
    \/ TrainStep(1)
    \/ \E qs \in Queries : pc[1] = "idle" /\ SearchCall(qs)
    \/ SearchStep

SpecSearch == Init /\ [][NextSearch]_vars

\* a goroutine calling StaticTraining while another one calls Search
NextRace ==
    \/ \E s \in RaceSentences : Call(1, s, MaxRaceDocs)
    \/ TrainStep(1)
    \/ \E qs \in Queries : SearchCall(qs)
    \/ SearchStep

SpecRace == Init /\ [][NextRace]_vars

\* one streaming goroutine with its producer, its consumer and its context,
\* started on an engine that StaticTraining calls may have filled before
NextStream ==
    \/ \E s \in StreamSentences : sPc = "off" /\ Call(1, s, MaxPreDocs)
    \/ sPc = "off" /\ TrainStep(1)
    \/ \E v \in {"Train", "DynamicTraining"} : Start(v)
    \/ \E s \in StreamSentences : Send(s)
    \/ CloseDocCh
    \/ Cancel
    \/ ConsReceive
    \/ ConsLeave
    \/ StreamStep

SpecStream == Init /\ [][NextStream]_vars

\* a StaticTraining caller, a Search and one streaming goroutine, which runs
\* its own StaticTraining calls, all at the same time
NextLive ==
    \/ \E s \in LiveSentences :
          nDocs - Len(sent) < MaxLiveCalls /\ Call(1, s, MaxLiveCalls + MaxLiveSent)
    \/ TrainStep(1)
    \/ \E qs \in LiveQueries : Len(sret) < MaxLiveSearch /\ SearchCall(qs)
    \/ SearchStep
    \/ Start("DynamicTraining")
    \/ \E s \in LiveSentences : Len(sent) < MaxLiveSent /\ Send(s)
    \/ DynRecv
    \/ DynSend
    \/ TrainStep(STREAM)

\* the goroutines that run StaticTraining: the streaming one and the caller
LiveProcs == {STREAM, 1}

\* the Go scheduler runs a goroutine that can run: while a StaticTraining
\* call or a Search can take a step, one of them eventually takes one
CallStep == (\E p \in LiveProcs : TrainStep(p)) \/ SearchStep

FairCalls == WF_vars(CallStep)

\* New(nil)
InitLive == Init /\ transformer = "nil"

SpecLive == InitLive /\ [][NextLive]_vars /\ FairCalls

\* one streaming goroutine with its producer and its context, and a consumer
\* that never receives from trainCh
NextCancel ==
    \/ \E v \in {"Train", "DynamicTraining"} : Start(v)
    \/ \E s \in StreamSentences : Send(s)
    \/ CloseDocCh
    \/ Cancel
    \/ TrainRecv
    \/ TrainDone
    \/ DynRecv
    \/ DynDone
    \/ DynSend
    \/ TrainStep(STREAM)

\* the Go scheduler runs the streaming goroutine whenever it can take a step
FairStream == WF_vars(StreamStep)

SpecCancel == Init /\ [][NextCancel]_vars /\ FairStream

\* ------------------------------------------------------------------- claims
Range(f) == {f[x] : x \in DOMAIN f}

\* the calls that returned no error
Trained == {i \in DOMAIN ret : ret[i].err = NoErr}

\* the terms of the normalized token sequence of a sentence
TermsOf(s) == Range(Tokens(sanitize(transformer, s).out))

\* the terms in the store or in any document handed to train
KnownTerms == DOMAIN terms \cup UNION {TermsOf(ret[i].doc.Sentence) : i \in DOMAIN ret}

\* the successfully trained documents holding t at least once
DocsWith(t) == {i \in Trained : t \in TermsOf(ret[i].doc.Sentence)}

\* C1: after a sequential sequence of StaticTraining calls, some of which fail
\* normalization, docsCount equals the number of calls that returned no error
\* and equals the length of the corpus.
C1_CountEqualsSuccessfulCalls ==
    pc[1] = "idle" =>
        /\ docsCount = Cardinality(Trained)
        /\ docsCount = Len(docs)

C1_Witness ==
    /\ pc[1] = "idle"
    /\ Len(ret) = 3
    /\ Cardinality(Trained) = 2
    /\ docsCount = 2

\* C2: after a sequential sequence of StaticTraining calls, the docsSeen of
\* every term is the number of successfully trained documents whose tokens
\* hold the term at least once: one per document however often the term occurs
\* in it, none for a document whose normalization failed.
C2_DocFrequencyCountsDocuments ==
    pc[1] = "idle" =>
        \A t \in KnownTerms :
            /\ Get(t).docsSeen = Cardinality(DocsWith(t))
            /\ Get(t).ok <=> DocsWith(t) # {}

C2_Witness ==
    /\ pc[1] = "idle"
    /\ \E i \in Trained : ret[i].doc.Sentence = <<"A", " ", "a">>
    /\ \E i \in DOMAIN ret : ret[i].err # NoErr
    /\ Get(<<"a">>).docsSeen = 2

\* C3: a StaticTraining call whose sentence fails normalization returns that
\* error at once, and the store, the corpus and docsCount are after the call
\* what they were before it; a call that goes on has a sentence that normalized.
C3_FailedTrainingHasNoEffect ==
    [][ /\ (Len(ret') = Len(ret) + 1 /\ ret'[Len(ret')].err # NoErr) =>
            /\ ret'[Len(ret')].err = sanitize(transformer, ret'[Len(ret')].doc.Sentence).err
            /\ terms' = terms
            /\ docs' = docs
            /\ docsCount' = docsCount
        /\ \A p \in Callers :
              (pc[p] = "idle" /\ pc'[p] # "idle") =>
                  sanitize(transformer, loc'[p].dc.Sentence).err = NoErr
      ]_vars

C3_Witness ==
    /\ Len(ret) = 2
    /\ ret[1].err = NoErr
    /\ ret[2].err = TransformErr
    /\ Len(docs) = 1
    /\ docsCount = 1

\* C4: when StaticTraining calls run concurrently on documents sharing a
\* term, then after all of them returned the docsSeen of the term is the number
\* of those documents: no increment is lost or overwritten.
C4_NoIncrementLost ==
    CallersIdle => \A t \in KnownTerms : Get(t).docsSeen = Cardinality(DocsWith(t))

\* C5: after concurrent StaticTraining calls have all returned, docsCount
\* equals the length of the corpus.
C5_CounterEqualsCorpusLength ==
    CallersIdle => docsCount = Len(docs)

\* the train calls of the streaming goroutine, in the order it made them
IsStreamCall(r) == r.p = STREAM
StreamRet == SelectSeq(ret, IsStreamCall)

\* the received results that stand for a trained document
IsDocOutcome(o) == o.Err # CtxErr
DocOuts == SelectSeq(outs, IsDocOutcome)
CancelOuts == {i \in DOMAIN outs : outs[i].Err = CtxErr}

ResultOf(r) == [Doc |-> r.doc, Err |-> r.err]

\* C6: when the goroutine stops because ctx was cancelled, the consumer has
\* received exactly one result carrying the cancellation error, it is the last
\* result, and trainCh is closed; no such result is published in any other case.
C6_CancellationPublishedOnce ==
    /\ (sPc = "done" /\ sExit = "ctx") =>
           /\ Cardinality(CancelOuts) = 1
           /\ outs[Len(outs)].Err = CtxErr
    /\ CancelOuts # {} => (sPc = "done" /\ sExit = "ctx")

\* C7: once docCh is closed and drained the goroutine trains nothing more:
\* every document it trains, or has trained, is one the producer sent; with a
\* channel closed and empty from the start it trains nothing and publishes no
\* result for a document.
C7_NothingTrainedAfterInputExhausted ==
    /\ \A i \in DOMAIN StreamRet : StreamRet[i].doc \in Range(sent)
    /\ pc[STREAM] # "idle" => loc[STREAM].dc \in Range(sent)
    /\ sent = <<>> => DocOuts = <<>>

\* C8: publishing blocks: unless ctx is cancelled, whenever the goroutine is
\* back at its select (or has returned) the consumer has received exactly one
\* result for every document the goroutine trained, in order; none was dropped.
C8_EveryTrainedDocumentIsPublished ==
    (~ctxDone /\ sPc \in {"select", "done"}) =>
        /\ Len(DocOuts) = Len(StreamRet)
        /\ \A k \in DOMAIN DocOuts : DocOuts[k] = ResultOf(StreamRet[k])

\* C9: a goroutine started with ctx already cancelled trains no document,
\* whatever is available on docCh, and when it has returned the consumer has
\* received exactly one result, carrying the cancellation error.
C9_CancelledAtStartTrainsNothing ==
    ctxAtStart =>
        /\ pc[STREAM] = "idle"
        /\ StreamRet = <<>>
        /\ DocOuts = <<>>
        /\ sPc = "done" => outs = <<[Doc |-> ZeroDoc, Err |-> CtxErr]>>

\* C10: the goroutine trains the documents in the order they were sent: the
\* k-th sent document it trains is the k-th document sent, the sent documents
\* stand in the corpus in the order of sending, and the results are received in
\* the order of training, each with the document and the error of its training.
WasSent(r) == r.doc \in Range(sent)
SentIndex(d) == CHOOSE k \in DOMAIN sent : sent[k] = d
DocumentOf(rec) == [Sentence |-> rec.Sentence, Class |-> rec.Class]
InCorpusSent(rec) == DocumentOf(rec) \in Range(sent)

RECURSIVE IsSubSeq(_, _)
IsSubSeq(a, b) ==
    IF a = <<>> THEN TRUE
    ELSE IF b = <<>> THEN FALSE
    ELSE IF Head(a) = Head(b) THEN IsSubSeq(Tail(a), Tail(b))
    ELSE IsSubSeq(a, Tail(b))

C10_StreamKeepsInputOrder ==
    /\ LET real == SelectSeq(StreamRet, WasSent)
       IN  \A k \in DOMAIN real : real[k].doc = sent[k]
    /\ \A i, j \in DOMAIN docs :
          (i < j /\ InCorpusSent(docs[i]) /\ InCorpusSent(docs[j])) =>
              SentIndex(DocumentOf(docs[i])) < SentIndex(DocumentOf(docs[j]))
    /\ IsSubSeq(DocOuts, [k \in DOMAIN StreamRet |-> ResultOf(StreamRet[k])])

C10_Witness ==
    /\ Len(sent) = 2
    /\ Len(SelectSeq(docs, InCorpusSent)) = 2
    /\ Len(DocOuts) = 2
    /\ Len(docs) = 3

\* C11: a streamed document whose normalization fails changes nothing in the
\* engine, its result carries the document and the error, the goroutine goes
\* on with its loop, and (ctx not cancelled) once the goroutine is back at its
\* select the consumer has received that result.
IsFailedCall(r) == r.err = TransformErr
IsFailedOutcome(o) == o.Err = TransformErr
FailedStreamCalls == SelectSeq(StreamRet, IsFailedCall)
FailedOuts == SelectSeq(outs, IsFailedOutcome)

C11_FailedStreamDocumentIsReported ==
    /\ (sPc = "publish" /\ sRes.Err = TransformErr) =>
           /\ StreamRet # <<>>
           /\ sRes = ResultOf(StreamRet[Len(StreamRet)])
           /\ sanitize(transformer, sRes.Doc.Sentence).err = TransformErr
    /\ sPc = "done" => sExit \in {"ctx", "docCh"}
    /\ (~ctxDone /\ sPc \in {"select", "done"}) =>
           FailedOuts = [k \in DOMAIN FailedStreamCalls |-> ResultOf(FailedStreamCalls[k])]

\* C12: a returned Search carries an error exactly when the normalizer fails
\* on its query; with an error it carries no document, and without one it
\* carries either a document or none.
C12_SearchFailsOnlyOnNormalization ==
    \A k \in DOMAIN sret :
        /\ sret[k].err # NoErr <=> sanitize(transformer, sret[k].query).err # NoErr
        /\ sret[k].err # NoErr => sret[k].doc = <<>>
        /\ sret[k].err \in {NoErr, TransformErr}

C12_Witness ==
    \E i, j \in DOMAIN sret :
        /\ sret[i].err = TransformErr
        /\ sret[j].err = NoErr /\ sret[j].doc = <<>>
        /\ docs # <<>>

\* the Search returned as sret[k] was called when no StaticTraining call had
\* returned nil
NoneTrainedAt(k) == \A j \in 1..sret[k].at : ret[j].err # NoErr

\* math.Log was never evaluated with totalDocs = 0
NoLogWithZeroTotal == \A a \in logArgs : a[1] # 0

\* C13, as stated: a Search on an engine on which no document has been
\* trained successfully returns no document and no error, whatever the query,
\* and evaluates no logarithm.
C13_EmptyEngineNoMatchForEveryQuery ==
    /\ \A k \in DOMAIN sret :
          NoneTrainedAt(k) => (sret[k].err = NoErr /\ sret[k].doc = <<>>)
    /\ NoLogWithZeroTotal

\* C13, amended: a Search on an engine on which no document has been trained
\* successfully returns no document and no error for every query that the
\* normalizer accepts, and evaluates no logarithm for any query.
C13_EmptyEngineNoMatch ==
    /\ \A k \in DOMAIN sret :
          (NoneTrainedAt(k) /\ sanitize(transformer, sret[k].query).err = NoErr) =>
              (sret[k].err = NoErr /\ sret[k].doc = <<>>)
    /\ NoLogWithZeroTotal

C13_Witness ==
    \E k \in DOMAIN sret :
        /\ NoneTrainedAt(k)
        /\ sret[k].at >= 1
        /\ sret[k].err = NoErr
        /\ sret[k].doc = <<>>
        /\ docs = <<>>

\* the StaticTraining calls that had returned nil when the Search returned as
\* sret[k] was called
TrainedBefore(k) == {j \in 1..sret[k].at : ret[j].err = NoErr}

\* the query of sret[k] is accepted by the normalizer, the corpus was not
\* empty, and no term of the query occurs in a document trained before
QueryAbsent(k) ==
    /\ sanitize(transformer, sret[k].query).err = NoErr
    /\ TrainedBefore(k) # {}
    /\ \A j \in TrainedBefore(k) :
          TermsOf(sret[k].query) \cap TermsOf(ret[j].doc.Sentence) = {}

\* C14: on a non-empty corpus a query none of whose terms occurs in a trained
\* document returns no document and no error.
C14_AbsentTermsNoMatch ==
    \A k \in DOMAIN sret :
        QueryAbsent(k) => (sret[k].err = NoErr /\ sret[k].doc = <<>>)

C14_Witness ==
    \E k \in DOMAIN sret :
        /\ QueryAbsent(k)
        /\ Cardinality(TrainedBefore(k)) >= 2
        /\ sret[k].err = NoErr
        /\ sret[k].doc = <<>>

\* ---- the TF-IDF cosine similarity, computed from the documents handed to
\* ---- the successful StaticTraining calls and not from the engine's state
RECURSIVE SumF(_, _)
SumF(f, S) ==
    IF S = {} THEN 0
    ELSE LET x == CHOOSE y \in S : TRUE IN f[x] + SumF(f, S \ {x})

\* the function f with all its values computed
Tabulated(f) == f @@ <<>>

\* the number of occurrences of t among the tokens toks
TfOf(toks, t) == Cardinality({i \in DOMAIN toks : toks[i] = t})

\* for the Search returned as sret[k], with N the number of documents trained
\* before it, docFrequency(t) the number of them holding t, and
\* idf(t)^2 = ln(N / docFrequency(t))^2 in hundredths: for each trained
\* document j, its dot product with the query (dot) and its squared magnitude
\* (dsq)
SimTable(k) ==
    LET T == TrainedBefore(k)
        tq == Tabulated(Tokens(sanitize(transformer, sret[k].query).out))
        td == Tabulated([j \in T |->
                 Tabulated(Tokens(sanitize(transformer, ret[j].doc.Sentence).out))])
        U == UNION {Range(td[j]) : j \in T}
        df == Tabulated([t \in U |-> Cardinality({j \in T : t \in Range(td[j])})])
        isq == Tabulated([t \in U |-> IdfSq(Cardinality(T), df[t]).v])
    IN  [dot |-> Tabulated([j \in T |->
                    SumF([t \in Range(td[j]) |-> TfOf(td[j], t) * TfOf(tq, t) * isq[t]],
                         Range(td[j]))]),
         dsq |-> Tabulated([j \in T |->
                    SumF([t \in Range(td[j]) |-> TfOf(td[j], t) * TfOf(td[j], t) * isq[t]],
                         Range(td[j]))])]

\* the similarity of document j is greater than zero
Positive(S, j) == S.dot[j] > 0

\* the similarity of document j is greater than that of document i (the
\* magnitude of the query is common to both)
MoreSimilar(S, j, i) ==
    /\ Positive(S, j)
    /\ \/ ~Positive(S, i)
       \/ S.dot[j] * S.dot[j] * S.dsq[i] > S.dot[i] * S.dot[i] * S.dsq[j]

\* the trained document that the Search returned as sret[k] handed back
FoundAt(k) == {j \in TrainedBefore(k) : sret[k].doc = <<ret[j].doc>>}

\* C15: the document a Search returns is strictly more similar to the query
\* than every document trained before it: among documents of equal similarity
\* the earliest trained one is returned.
C15_TiesGoToEarliest ==
    \A k \in DOMAIN sret :
        LET S == SimTable(k)
        IN  \A j \in FoundAt(k) :
                \A i \in TrainedBefore(k) : i < j => MoreSimilar(S, j, i)

C15_Witness ==
    \E k \in DOMAIN sret :
        LET S == SimTable(k)
        IN  \E j \in FoundAt(k) :
                \E i \in TrainedBefore(k) :
                    /\ j < i
                    /\ ~MoreSimilar(S, j, i)
                    /\ ~MoreSimilar(S, i, j)

\* C16: a Search that returns a document returns a trained document whose
\* TF-IDF cosine similarity with the query is greater than zero and is the
\* greatest of the corpus; it returns none when no trained document has a
\* similarity greater than zero.
C16_ReturnsMostSimilarDocument ==
    \A k \in DOMAIN sret :
        LET S == SimTable(k)
        IN  sret[k].err = NoErr =>
                IF sret[k].doc = <<>>
                THEN \A j \in TrainedBefore(k) : ~Positive(S, j)
                ELSE /\ FoundAt(k) # {}
                     /\ \A j \in FoundAt(k) :
                           /\ Positive(S, j)
                           /\ \A i \in TrainedBefore(k) : ~MoreSimilar(S, i, j)

C16_Witness ==
    \E k \in DOMAIN sret :
        LET S == SimTable(k)
        IN  \E j \in FoundAt(k) :
                \E i \in TrainedBefore(k) :
                    /\ i < j
                    /\ Positive(S, i)
                    /\ MoreSimilar(S, j, i)

C18_CorpusTermsAreCounted ==
    \A i \in DOMAIN docs :
        \A t \in DOMAIN docs[i].termFreq :
            t \in DOMAIN terms /\ terms[t] >= 1

\* C19: a Search running while StaticTraining runs never gets from terms.Get
\* an entry that is present and has docsSeen = 0, in the loop over the terms
\* of the query and in the loop over the terms of a document.
C19_ReaderNeverSeesZeroCount ==
    /\ qPc = "queryGet" =>
           \A trm \in q.rest : Get(trm).ok => Get(trm).docsSeen >= 1
    /\ qPc = "docGet" =>
           \A trm \in q.drest : Get(trm).ok => Get(trm).docsSeen >= 1

\* C20: a Search that has read docsCount = 0 evaluates no logarithm and
\* returns no document, also while a StaticTraining call is in progress.
C20_ZeroTotalEvaluatesNoLogarithm ==
    /\ \A a \in logArgs : a[1] # 0
    /\ (qPc = "runlock" /\ q.total = 0) => q.found = <<>>

\* the termFreq map of record r counts every token of its normalized sentence
CompleteRecord(r) ==
    r.termFreq = TermFreqOf(Tokens(sanitize(transformer, r.Sentence).out))

\* C21: no step shortens the corpus or changes the record at an index already
\* filled, and every record of the corpus, in particular the one a Search is
\* scanning while StaticTraining appends, has its complete termFreq map.
C21_CorpusIsAppendOnly ==
    /\ [][/\ Len(docs') >= Len(docs)
          /\ \A i \in DOMAIN docs : docs'[i] = docs[i]]_vars
    /\ [](\A i \in DOMAIN docs : CompleteRecord(docs[i]))
    /\ [](qPc = "docGet" =>
             /\ q.i \in DOMAIN docs
             /\ q.drest \subseteq DOMAIN docs[q.i].termFreq)

C21_Witness ==
    /\ qPc = "docGet"
    /\ pc[1] = "append"
    /\ Len(docs) = 1
    /\ Cardinality(DOMAIN docs[1].termFreq) = 2

\* every term of the query of sret[k] that is in a document trained before is
\* in all the documents trained before
QueryTermsInAllDocs(k) ==
    \A t \in TermsOf(sret[k].query) :
        \A i, j \in TrainedBefore(k) :
            t \in TermsOf(ret[i].doc.Sentence) => t \in TermsOf(ret[j].doc.Sentence)

\* C22, as stated: with exactly one document trained a Search returns no
\* document and no error for every query; more generally the terms held by
\* all trained documents weigh nothing, so a query with no other known term
\* returns no document.
C22_SingleDocumentNoMatchForEveryQuery ==
    \A k \in DOMAIN sret :
        /\ Cardinality(TrainedBefore(k)) = 1 =>
               (sret[k].err = NoErr /\ sret[k].doc = <<>>)
        /\ QueryTermsInAllDocs(k) => sret[k].doc = <<>>

\* C22, amended: the same for every query that the normalizer accepts.
C22_SingleDocumentNoMatch ==
    \A k \in DOMAIN sret :
        sanitize(transformer, sret[k].query).err = NoErr =>
            /\ Cardinality(TrainedBefore(k)) = 1 =>
                   (sret[k].err = NoErr /\ sret[k].doc = <<>>)
            /\ QueryTermsInAllDocs(k) => sret[k].doc = <<>>

C22_Witness ==
    \E k \in DOMAIN sret :
        \E j \in TrainedBefore(k) :
            /\ TrainedBefore(k) = {j}
            /\ sret[k].query = ret[j].doc.Sentence
            /\ sret[k].err = NoErr
            /\ sret[k].doc = <<>>
            /\ <<1, 1>> \in logArgs

\* C23: a started StaticTraining call can always take a step unless it waits
\* at v.mu.Lock for a Search that itself can take a step, a started Search can
\* always take a step, and with fair scheduling every started StaticTraining
\* call and every started Search returns: the calls being finitely many, from
\* some state on none is in progress.
C23_NoDeadlock ==
    /\ [](\A p \in LiveProcs :
             pc[p] # "idle" =>
                 \/ ENABLED TrainStep(p)
                 \/ pc[p] = "append" /\ ScanLocked /\ ENABLED SearchStep)
    /\ [](qPc # "idle" => ENABLED SearchStep)
    /\ <>[](qPc = "idle" /\ \A p \in LiveProcs : pc[p] = "idle")

C23_Witness ==
    /\ ScanLocked
    /\ pc[1] = "append"
    /\ pc[STREAM] # "idle"

\* C24: once ctx is cancelled, a started streaming goroutine eventually
\* returns, which closes trainCh, although nothing ever receives from trainCh.
C24_CancelledStreamTerminates ==
    (ctxDone /\ sPc # "off") ~> (sPc = "done")

\* C25: every docsSeen that a Search uses in math.Log is at most the
\* totalDocs it loaded at its start, also while StaticTraining is running.
C25_DocFrequencyAtMostTotal ==
    \A a \in logArgs : a[2] <= a[1]

====
